---- MODULE Spec2Model ----
(***************************************************************************)
(* Model of the acquisition / transcription / search code of               *)
(* video-quick-eval: src/downloader.py, src/transcriber.py,                *)
(* src/bilibili_search.py and src/utils.py.                                *)
(*                                                                         *)
(* Strings are sequences of one-character strings, so that the string      *)
(* functions of the code (regex search, Path.stem, Path.suffix, lower,     *)
(* strip, f-strings) are computed and not assumed.                         *)
(***************************************************************************)
EXTENDS Integers, Sequences, FiniteSets, TLC

VARIABLES
    dirs,       \* output directories that exist
    fs,         \* artifact files: path |-> the source the content was made from
    pc,         \* per call slot: position inside the running method
    call,       \* per call slot: the arguments of the running method
    loc,        \* per call slot: the local variables of the running method
    ret,        \* per call slot: what the method returned or raised
    eff,        \* per call slot: external tools run and makedirs done by the call
    snap,       \* per call slot: the artifact files that existed when called
    obs,        \* per call slot: content of the returned file_path at return
    nCalls,     \* number of method calls started
    tpc,        \* transcript(): position
    traw,       \* transcript(): the raw segments the runtime has yielded so far
    tlang,      \* transcript(): info.language of the runtime's answer
    tsegments,  \* transcript(): local `segments`
    tfull,      \* transcript(): local `full_text`
    tret,       \* transcript(): what it returned or raised
    tcalls,     \* transcript(): number of model.transcribe() invocations
    tfault,     \* transcript(): the exception the runtime raised, if any
    spc,        \* search_bilibili_videos(): position
    sraw,       \* search_bilibili_videos(): what the search API answered
    scount,     \* search_bilibili_videos(): argument `count`
    svideos,    \* search_bilibili_videos(): videos[:count]
    sidx,       \* search_bilibili_videos(): entries of videos[:count] handled
    slist,      \* search_bilibili_videos(): local `video_list`
    sret,       \* search_bilibili_videos(): the returned list
    rcalls,     \* get_downloader(): number of calls made
    rtag,       \* get_downloader(): argument `platform` of the last call
    rret,       \* get_downloader(): what the last call returned or raised
    rmade,      \* get_downloader(): the instances returned so far, oldest first
    cpc,        \* duration codec: "idle", "start", "formatted" or "parsed"
    cseconds,   \* format_duration(): argument `seconds`
    cstr,       \* format_duration(): the returned string
    cparsed     \* _parse_duration(): the returned number of seconds

dvars == <<dirs, fs, pc, call, loc, ret, eff, snap, obs, nCalls>>
tvars == <<tpc, traw, tlang, tsegments, tfull, tret, tcalls, tfault>>
svars == <<spc, sraw, scount, svideos, sidx, slist, sret>>
rvars == <<rcalls, rtag, rret, rmade>>
cvars == <<cpc, cseconds, cstr, cparsed>>
vars == <<dvars, tvars, svars, rvars, cvars>>

\* Python's None where a str is expected: no string of the model is this token
None == <<"None">>
\* Python's None where a path is expected
NonePath == [none |-> TRUE]
\* output_dir = None
NoDir == "<None>"

-----------------------------------------------------------------------------
(* Characters                                                              *)

Digits == {"0", "1", "2", "3", "4", "5", "6", "7", "8", "9"}
UpperCase == {"A", "B", "C", "D", "E", "F", "G", "H", "I", "J", "K", "L", "M",
              "N", "O", "P", "Q", "R", "S", "T", "U", "V", "W", "X", "Y", "Z"}
LowerCase == {"a", "b", "c", "d", "e", "f", "g", "h", "i", "j", "k", "l", "m",
              "n", "o", "p", "q", "r", "s", "t", "u", "v", "w", "x", "y", "z"}
\* [0-9A-Za-z]
Alnum == Digits \cup UpperCase \cup LowerCase
\* [0-9A-Za-z_-]
YtChar == Alnum \cup {"_", "-"}

\* str.lower() on one character
LowerChar(c) ==
    CASE c = "A" -> "a" [] c = "B" -> "b" [] c = "C" -> "c" [] c = "D" -> "d"
      [] c = "E" -> "e" [] c = "F" -> "f" [] c = "G" -> "g" [] c = "H" -> "h"
      [] c = "I" -> "i" [] c = "J" -> "j" [] c = "K" -> "k" [] c = "L" -> "l"
      [] c = "M" -> "m" [] c = "N" -> "n" [] c = "O" -> "o" [] c = "P" -> "p"
      [] c = "Q" -> "q" [] c = "R" -> "r" [] c = "S" -> "s" [] c = "T" -> "t"
      [] c = "U" -> "u" [] c = "V" -> "v" [] c = "W" -> "w" [] c = "X" -> "x"
      [] c = "Y" -> "y" [] c = "Z" -> "z" [] OTHER -> c

\* str.lower()
Lower(s) == [i \in 1..Len(s) |-> LowerChar(s[i])]

\* s[i:i+len(t)] == t  (1-based i)
MatchAt(s, i, t) ==
    /\ i + Len(t) - 1 <= Len(s)
    /\ \A k \in 1..Len(t) : s[i + k - 1] = t[k]

\* f"{x}" of an Optional[str]
Fmt(x) == IF x = None THEN <<"N", "o", "n", "e">> ELSE x

-----------------------------------------------------------------------------
(* utils.extract_video_id                                                  *)

\* length of the longest run of characters of `cls` starting at s[i]
RECURSIVE RunLen(_, _, _)
RunLen(s, i, cls) ==
    IF i <= Len(s) /\ s[i] \in cls THEN 1 + RunLen(s, i + 1, cls) ELSE 0

\* re.search(r"BV([0-9A-Za-z]+)", url): leftmost match, greedy group
BiliMatches(url) ==
    {i \in 1..Len(url) : MatchAt(url, i, <<"B", "V">>) /\ RunLen(url, i + 2, Alnum) >= 1}

\* re.search(r"(?:v=|youtu\.be/)([0-9A-Za-z_-]{11})", url): <<match start, group start>>
YtMatches(url) ==
    {<<j, j + 2>> : j \in {k \in 1..Len(url) :
                MatchAt(url, k, <<"v", "=">>) /\ RunLen(url, k + 2, YtChar) >= 11}}
    \cup
    {<<j, j + 9>> : j \in {k \in 1..Len(url) :
                MatchAt(url, k, <<"y", "o", "u", "t", "u", ".", "b", "e", "/">>)
                /\ RunLen(url, k + 9, YtChar) >= 11}}

Min(S) == CHOOSE x \in S : \A y \in S : x <= y

extract_video_id(url, platform) ==
    IF platform = "bilibili" THEN
        IF BiliMatches(url) = {} THEN None
        ELSE LET i == Min(BiliMatches(url))
             IN  <<"B", "V">> \o SubSeq(url, i + 2, i + 1 + RunLen(url, i + 2, Alnum))
    ELSE IF platform = "youtube" THEN
        IF YtMatches(url) = {} THEN None
        ELSE LET j == Min({m[1] : m \in YtMatches(url)})
                 g == (CHOOSE m \in YtMatches(url) : m[1] = j)[2]
             IN  SubSeq(url, g, g + 10)
    ELSE None

-----------------------------------------------------------------------------
(* The world outside the program                                           *)

MaxCalls == 2

Procs == {"p1", "p2"}

\* utils.get_data_dir(): <cwd>/data, created when a Downloader is constructed
cache_data == "data"
OutputDirs == {NoDir, "out"}

\* os.path.join(dir, name)
join(dir, name) == [dir |-> dir, name |-> name]

BiliUrls == {
    <<"/", "B", "V", "1">>,                       \* a plain video page
    <<"/", "B", "V", "1", "?", "p", "=", "2">>,   \* part 2 of the same video
    <<"/", "b", "2", "3">> }                      \* a short link without a BV token
YtUrls == {
    <<"v", "=", "a", "b", "c", "d", "e", "f", "g", "h", "i", "j", "k">>,
    <<"/", "s", "h", "o", "r", "t", "s", "/", "x">> }

\* The id the download engine reports in info["id"] for each URL of the model
\* (the engine is external; for a multi-part Bilibili page it reports id_pN).
EngineId(url) ==
    CASE url = <<"/", "B", "V", "1">> -> <<"B", "V", "1">>
      [] url = <<"/", "B", "V", "1", "?", "p", "=", "2">> -> <<"B", "V", "1", "_", "p", "2">>
      [] url = <<"/", "b", "2", "3">> -> <<"B", "V", "2">>
      [] url = <<"v", "=", "a", "b", "c", "d", "e", "f", "g", "h", "i", "j", "k">>
            -> <<"a", "b", "c", "d", "e", "f", "g", "h", "i", "j", "k">>
      [] OTHER -> <<"x", "y", "z">>

\* Local source paths and what is at each of them on disk
LocalPaths == {
    join("a", <<"c", ".", "m", "p", "4">>),
    join("b", <<"c", ".", "m", "p", "4">>),
    join("a", <<"t", ".", "M", "P", "4">>),
    join("a", <<"n", ".", "t", "x", "t">>),
    join("a", <<"f">>),
    join("a", <<"g", ".", "t", "x", "t">>) }
SrcKind(path) ==
    CASE path = join("a", <<"f">>) -> "dir"
      [] path = join("a", <<"g", ".", "t", "x", "t">>) -> "absent"
      [] OTHER -> "file"

\* Path.exists(), Path.is_file()
exists(path) == SrcKind(path) # "absent"
is_file(path) == SrcKind(path) = "file"

\* index of the last "." of a name, 0 if there is none
LastDot(name) ==
    LET D == {i \in 1..Len(name) : name[i] = "."}
    IN  IF D = {} THEN 0 ELSE CHOOSE i \in D : \A j \in D : j <= i

\* Path.suffix: from the last dot, unless the dot leads or ends the name
suffix(path) ==
    LET n == path.name  i == LastDot(n)
    IN  IF 1 < i /\ i < Len(n) THEN SubSeq(n, i, Len(n)) ELSE <<>>

\* Path.stem
stem(path) ==
    LET n == path.name  i == LastDot(n)
    IN  IF 1 < i /\ i < Len(n) THEN SubSeq(n, 1, i - 1) ELSE n

video_extensions == {
    <<".", "m", "p", "4">>, <<".", "a", "v", "i">>, <<".", "m", "k", "v">>,
    <<".", "m", "o", "v">>, <<".", "f", "l", "v">>, <<".", "w", "m", "v">>,
    <<".", "w", "e", "b", "m">>, <<".", "m", "4", "v">> }

Mp3 == <<".", "m", "p", "3">>
Mp4 == <<".", "m", "p", "4">>

\* what the content of an artifact was made from
Content(c) ==
    IF c.backend = "local" THEN [by |-> "local", path |-> c.video_url]
    ELSE [by |-> c.backend, url |-> c.video_url]
NoContent == [absent |-> TRUE]
ContentAt(files, path) == IF path \in DOMAIN files THEN files[path] ELSE NoContent

\* durations ffprobe can lead _get_video_duration to (0: the probe failed)
ProbedDurations == {0, 60}
\* info.get("duration", 0) of the engine's metadata
InfoDuration == 60

-----------------------------------------------------------------------------
(* Results                                                                 *)

NoRet == [kind |-> "none"]
Raise(exc, msg) == [kind |-> "raise", exc |-> exc, msg |-> msg]
Return(v) == [kind |-> "return", value |-> v]

NoEff == [engine |-> 0, ffmpeg |-> 0, ffprobe |-> 0, makedirs |-> 0]
NoLoc == [video_id |-> None, path |-> NonePath]
NoCall == [backend |-> "none", method |-> "none", video_url |-> <<>>,
           output_dir |-> NoDir, need_video |-> FALSE]

\* output_dir after `if output_dir is None: output_dir = self.cache_data`
OutDir(c) == IF c.output_dir = NoDir THEN cache_data ELSE c.output_dir

DInit ==
    /\ dirs = {cache_data}
    /\ fs = <<>>
    /\ pc = [p \in Procs |-> "idle"]
    /\ call = [p \in Procs |-> NoCall]
    /\ loc = [p \in Procs |-> NoLoc]
    /\ ret = [p \in Procs |-> NoRet]
    /\ eff = [p \in Procs |-> NoEff]
    /\ snap = [p \in Procs |-> {}]
    /\ obs = [p \in Procs |-> NoContent]
    /\ nCalls = 0

Sources(backend) ==
    CASE backend = "bilibili" -> BiliUrls
      [] backend = "youtube" -> YtUrls
      [] backend = "local" -> LocalPaths

\* A caller invokes download() or download_video() of a backend.
Call(p, backend, method, src, od, nv) ==
    /\ nCalls' = nCalls + 1
    /\ call' = [call EXCEPT ![p] = [backend |-> backend, method |-> method,
                    video_url |-> src, output_dir |-> od, need_video |-> nv]]
    /\ pc' = [pc EXCEPT ![p] = "start"]
    /\ loc' = [loc EXCEPT ![p] = NoLoc]
    /\ ret' = [ret EXCEPT ![p] = NoRet]
    /\ eff' = [eff EXCEPT ![p] = NoEff]
    /\ snap' = [snap EXCEPT ![p] = DOMAIN fs]
    /\ obs' = [obs EXCEPT ![p] = NoContent]
    /\ UNCHANGED <<dirs, fs, tvars, svars, rvars, cvars>>

\* the method ends: it returns or raises r
Finish(p, r) ==
    /\ pc' = [pc EXCEPT ![p] = "done"]
    /\ ret' = [ret EXCEPT ![p] = r]

Running(p, backend, method, at) ==
    /\ pc[p] = at
    /\ call[p].backend = backend
    /\ call[p].method = method

Did(p, what) == eff' = [eff EXCEPT ![p][what] = @ + 1]

-----------------------------------------------------------------------------
(* models.AudioDownloadResult                                              *)

AudioDownloadResult(file_path, title, duration, cover_url, platform, video_id, video_path) ==
    [file_path |-> file_path, title |-> title, duration |-> duration,
     cover_url |-> cover_url, platform |-> platform, video_id |-> video_id,
     video_path |-> video_path]

-----------------------------------------------------------------------------
(* BilibiliDownloader / YoutubeDownloader: download()                      *)

\* os.makedirs(output_dir, exist_ok=True); the yt-dlp options are then built
RemoteDownloadMakedirs(p, platform) ==
    /\ Running(p, platform, "download", "start")
    /\ dirs' = dirs \cup {OutDir(call[p])}
    /\ Did(p, "makedirs")
    /\ pc' = [pc EXCEPT ![p] = "engine"]
    /\ UNCHANGED <<fs, call, loc, ret, snap, obs, nCalls>>

\* the result download() builds from the engine's info
RemoteResult(c, platform, duration) ==
    LET video_id == EngineId(c.video_url)
        audio_path == join(OutDir(c), Fmt(video_id) \o Mp3)
    IN  AudioDownloadResult(audio_path, <<"t">>, duration, "thumbnail", platform,
                            video_id, NonePath)

\* ydl.extract_info(video_url, download=True) and the return: the engine
\* raises, or returns info; the file <id>.mp3 is there afterwards or not
\* (the engine is not asked, and nothing is checked).
RemoteDownloadEngine(p, platform) ==
    /\ Running(p, platform, "download", "engine")
    /\ Did(p, "engine")
    /\ \/ /\ Finish(p, Raise("DownloadError", "engine"))
          /\ UNCHANGED <<fs, obs>>
       \/ \E wrote \in BOOLEAN :
            LET r == RemoteResult(call[p], platform, InfoDuration)
                files == IF wrote THEN (r.file_path :> Content(call[p])) @@ fs ELSE fs
            IN  /\ fs' = files
                /\ Finish(p, Return(r))
                /\ obs' = [obs EXCEPT ![p] = ContentAt(files, r.file_path)]
    /\ UNCHANGED <<dirs, call, loc, snap, nCalls>>

BilibiliDownloadMakedirs(p) ==
    RemoteDownloadMakedirs(p, "bilibili") /\ UNCHANGED <<tvars, svars, rvars, cvars>>
BilibiliDownloadEngine(p) ==
    RemoteDownloadEngine(p, "bilibili") /\ UNCHANGED <<tvars, svars, rvars, cvars>>
YoutubeDownloadMakedirs(p) ==
    RemoteDownloadMakedirs(p, "youtube") /\ UNCHANGED <<tvars, svars, rvars, cvars>>
YoutubeDownloadEngine(p) ==
    RemoteDownloadEngine(p, "youtube") /\ UNCHANGED <<tvars, svars, rvars, cvars>>

-----------------------------------------------------------------------------
(* BilibiliDownloader / YoutubeDownloader: download_video()                *)

\* the path download_video() looks for before it downloads
CachePath(c, platform) ==
    LET video_id == extract_video_id(c.video_url, platform)
    IN  join(OutDir(c), Fmt(video_id) \o Mp4)

\* a download_video() that never looks for an earlier download
CacheHitNever(video_path, files) == FALSE

\* `if os.path.exists(video_path)`: the download is skipped
CacheHit(video_path, files) == video_path \in DOMAIN files

\* makedirs, extract_video_id, and `if os.path.exists(video_path): return`
RemoteVideoCheck(p, platform) ==
    /\ Running(p, platform, "download_video", "start")
    /\ dirs' = dirs \cup {OutDir(call[p])}
    /\ Did(p, "makedirs")
    /\ LET video_path == CachePath(call[p], platform)
       IN  IF CacheHit(video_path, fs)
           THEN /\ Finish(p, Return(video_path))
                /\ obs' = [obs EXCEPT ![p] = ContentAt(fs, video_path)]
                /\ UNCHANGED loc
           ELSE /\ pc' = [pc EXCEPT ![p] = "engine"]
                /\ loc' = [loc EXCEPT ![p] = [video_id |-> extract_video_id(call[p].video_url, platform),
                                              path |-> video_path]]
                /\ UNCHANGED <<ret, obs>>
    /\ UNCHANGED <<fs, call, snap, nCalls>>

\* ydl.extract_info(video_url, download=True): raises, or returns info and
\* the file <info id>.mp4 is there afterwards or not
RemoteVideoEngine(p, platform) ==
    /\ Running(p, platform, "download_video", "engine")
    /\ Did(p, "engine")
    /\ \/ /\ Finish(p, Raise("DownloadError", "engine"))
          /\ UNCHANGED <<fs, loc>>
       \/ \E wrote \in BOOLEAN :
            LET video_id == EngineId(call[p].video_url)
                video_path == join(OutDir(call[p]), Fmt(video_id) \o Mp4)
            IN  /\ fs' = IF wrote THEN (video_path :> Content(call[p])) @@ fs ELSE fs
                /\ loc' = [loc EXCEPT ![p] = [video_id |-> video_id, path |-> video_path]]
                /\ pc' = [pc EXCEPT ![p] = "verify"]
                /\ UNCHANGED ret
    /\ UNCHANGED <<dirs, call, snap, obs, nCalls>>

\* a download_video() that trusts the engine and does not look for the file
RemoteVideoOutcomeTrusting(video_path, there) == Return(video_path)

\* the end of download_video(), given whether video_path exists
RemoteVideoOutcome(video_path, there) ==
    IF ~there THEN Raise("FileNotFoundError", "video file not found")
    ELSE Return(video_path)

\* `if not os.path.exists(video_path): raise FileNotFoundError`, else return
RemoteVideoVerify(p, platform) ==
    /\ Running(p, platform, "download_video", "verify")
    /\ Finish(p, RemoteVideoOutcome(loc[p].path, loc[p].path \in DOMAIN fs))
    /\ obs' = [obs EXCEPT ![p] = ContentAt(fs, loc[p].path)]
    /\ UNCHANGED <<dirs, fs, call, loc, eff, snap, nCalls>>

BilibiliVideoCheck(p) ==
    RemoteVideoCheck(p, "bilibili") /\ UNCHANGED <<tvars, svars, rvars, cvars>>
BilibiliVideoEngine(p) ==
    RemoteVideoEngine(p, "bilibili") /\ UNCHANGED <<tvars, svars, rvars, cvars>>
BilibiliVideoVerify(p) ==
    RemoteVideoVerify(p, "bilibili") /\ UNCHANGED <<tvars, svars, rvars, cvars>>
YoutubeVideoCheck(p) ==
    RemoteVideoCheck(p, "youtube") /\ UNCHANGED <<tvars, svars, rvars, cvars>>
YoutubeVideoEngine(p) ==
    RemoteVideoEngine(p, "youtube") /\ UNCHANGED <<tvars, svars, rvars, cvars>>
YoutubeVideoVerify(p) ==
    RemoteVideoVerify(p, "youtube") /\ UNCHANGED <<tvars, svars, rvars, cvars>>

-----------------------------------------------------------------------------
(* LocalVideoDownloader                                                    *)

\* download(): the checks on the source path, in the order of the code
LocalDownloadValidation(video_path) ==
    IF ~exists(video_path) THEN Raise("FileNotFoundError", "local video file does not exist")
    ELSE IF ~is_file(video_path) THEN Raise("ValueError", "path is not a file")
    ELSE IF Lower(suffix(video_path)) \notin video_extensions
         THEN Raise("ValueError", "unsupported video format")
    ELSE NoRet

\* a download() that creates the output directory before it validates the
\* source, as the remote backends do
LocalDownloadValidateMakedirsFirst(p) ==
    /\ Running(p, "local", "download", "start")
    /\ dirs' = dirs \cup {OutDir(call[p])}
    /\ Did(p, "makedirs")
    /\ LET video_path == call[p].video_url
           v == LocalDownloadValidation(video_path)
       IN  IF v # NoRet
           THEN /\ Finish(p, v)
                /\ UNCHANGED loc
           ELSE /\ loc' = [loc EXCEPT ![p] = [video_id |-> stem(video_path),
                               path |-> join(OutDir(call[p]), Fmt(stem(video_path)) \o Mp3)]]
                /\ pc' = [pc EXCEPT ![p] = "ffmpeg"]
                /\ UNCHANGED ret
    /\ UNCHANGED <<fs, call, snap, obs, nCalls, tvars, svars, rvars, cvars>>

\* download() up to the ffmpeg command: validation, makedirs, audio_path
LocalDownloadValidate(p) ==
    /\ Running(p, "local", "download", "start")
    /\ LET video_path == call[p].video_url
           v == LocalDownloadValidation(video_path)
       IN  IF v # NoRet
           THEN /\ Finish(p, v)
                /\ UNCHANGED <<dirs, loc, eff>>
           ELSE /\ dirs' = dirs \cup {OutDir(call[p])}
                /\ Did(p, "makedirs")
                /\ loc' = [loc EXCEPT ![p] = [video_id |-> stem(video_path),
                               path |-> join(OutDir(call[p]), Fmt(stem(video_path)) \o Mp3)]]
                /\ pc' = [pc EXCEPT ![p] = "ffmpeg"]
                /\ UNCHANGED ret
    /\ UNCHANGED <<fs, call, snap, obs, nCalls, tvars, svars, rvars, cvars>>

\* subprocess.run(['ffmpeg', ..., '-y', audio_path], check=True): exits 0
\* having written audio_path, exits nonzero, or is not installed
LocalDownloadFfmpeg(p) ==
    /\ Running(p, "local", "download", "ffmpeg")
    /\ \/ /\ fs' = (loc[p].path :> Content(call[p])) @@ fs
          /\ Did(p, "ffmpeg")
          /\ pc' = [pc EXCEPT ![p] = "probe"]
          /\ UNCHANGED ret
       \/ /\ Did(p, "ffmpeg")
          /\ Finish(p, Raise("RuntimeError", "ffmpeg failed"))
          /\ UNCHANGED fs
       \/ /\ Finish(p, Raise("RuntimeError", "ffmpeg not installed"))
          /\ UNCHANGED <<fs, eff>>
    /\ UNCHANGED <<dirs, call, loc, snap, obs, nCalls, tvars, svars, rvars, cvars>>

\* a download() that fills video_path only when need_video is set
LocalResultOnRequest(c, audio_path, duration) ==
    AudioDownloadResult(audio_path, stem(c.video_url), duration, "None", "local",
                        stem(c.video_url),
                        IF c.need_video THEN c.video_url ELSE NonePath)

\* the result download() builds
LocalResult(c, audio_path, duration) ==
    AudioDownloadResult(audio_path, stem(c.video_url), duration, "None", "local",
                        stem(c.video_url), c.video_url)

\* _get_video_duration (ffprobe; any failure gives 0) and the return
LocalDownloadProbe(p) ==
    /\ Running(p, "local", "download", "probe")
    /\ Did(p, "ffprobe")
    /\ \E duration \in ProbedDurations :
          Finish(p, Return(LocalResult(call[p], loc[p].path, duration)))
    /\ obs' = [obs EXCEPT ![p] = ContentAt(fs, loc[p].path)]
    /\ UNCHANGED <<dirs, fs, call, loc, snap, nCalls, tvars, svars, rvars, cvars>>

\* download_video(): the check on the source path
LocalVideoValidation(video_path) ==
    IF ~exists(video_path) THEN Raise("FileNotFoundError", "local video file does not exist")
    ELSE NoRet

\* download_video(): returns str(video_path) of an existing path
LocalVideo(p) ==
    /\ Running(p, "local", "download_video", "start")
    /\ LET video_path == call[p].video_url
           v == LocalVideoValidation(video_path)
       IN  Finish(p, IF v # NoRet THEN v ELSE Return(video_path))
    /\ UNCHANGED <<dirs, fs, call, loc, eff, snap, obs, nCalls, tvars, svars, rvars, cvars>>

-----------------------------------------------------------------------------
(* The downloader specification                                            *)

Backends == {"bilibili", "youtube", "local"}

\* One caller, one call after the other.
CallDownload(p) ==
    /\ pc[p] \in {"idle", "done"}
    /\ nCalls < MaxCalls
    /\ \E backend \in Backends :
       \E src \in Sources(backend), od \in OutputDirs, nv \in BOOLEAN :
          Call(p, backend, "download", src, od, nv)

CallDownloadVideo(p) ==
    /\ pc[p] \in {"idle", "done"}
    /\ nCalls < MaxCalls
    /\ \E backend \in Backends :
       \E src \in Sources(backend), od \in OutputDirs :
          Call(p, backend, "download_video", src, od, FALSE)

\* the transcriber and the search are not running
TInert ==
    /\ tpc = "idle" /\ traw = <<>> /\ tlang = "None" /\ tsegments = <<>>
    /\ tfull = <<>> /\ tret = NoRet /\ tcalls = 0 /\ tfault = "None"
SInert ==
    /\ spc = "idle" /\ sraw = [kind |-> "none"] /\ scount = 0 /\ svideos = <<>>
    /\ sidx = 0 /\ slist = <<>> /\ sret = NoRet
RInert == rcalls = 0 /\ rtag = <<>> /\ rret = NoRet /\ rmade = <<>>
CInert == cpc = "idle" /\ cseconds = 0 /\ cstr = <<>> /\ cparsed = 0

Init == DInit /\ TInert /\ SInert /\ RInert /\ CInert

Next ==
    \E p \in {"p1"} :
        \/ CallDownload(p)
        \/ CallDownloadVideo(p)
        \/ BilibiliDownloadMakedirs(p)
        \/ BilibiliDownloadEngine(p)
        \/ BilibiliVideoCheck(p)
        \/ BilibiliVideoEngine(p)
        \/ BilibiliVideoVerify(p)
        \/ YoutubeDownloadMakedirs(p)
        \/ YoutubeDownloadEngine(p)
        \/ YoutubeVideoCheck(p)
        \/ YoutubeVideoEngine(p)
        \/ YoutubeVideoVerify(p)
        \/ LocalDownloadValidate(p)
        \/ LocalDownloadFfmpeg(p)
        \/ LocalDownloadProbe(p)
        \/ LocalVideo(p)

Spec == Init /\ [][Next]_vars

\* Two callers, each running one download() at the same time as the other.
CallConcurrently(p) ==
    /\ pc[p] = "idle"
    /\ \E backend \in Backends :
       \E src \in Sources(backend), od \in OutputDirs, nv \in BOOLEAN :
          Call(p, backend, "download", src, od, nv)

NextConcurrent ==
    \E p \in Procs :
        \/ CallConcurrently(p)
        \/ BilibiliDownloadMakedirs(p)
        \/ BilibiliDownloadEngine(p)
        \/ YoutubeDownloadMakedirs(p)
        \/ YoutubeDownloadEngine(p)
        \/ LocalDownloadValidate(p)
        \/ LocalDownloadFfmpeg(p)
        \/ LocalDownloadProbe(p)

SpecConcurrent == Init /\ [][NextConcurrent]_vars

-----------------------------------------------------------------------------
(* Properties of the downloaders                                           *)

Remote == {"bilibili", "youtube"}
Done(p) == pc[p] = "done"
Returned(p) == Done(p) /\ ret[p].kind = "return"
Raised(p) == Done(p) /\ ret[p].kind = "raise"
Is(p, backends, method) == call[p].backend \in backends /\ call[p].method = method

\* the error taxonomy, as the exceptions the code raises
NotFound == Raise("FileNotFoundError", "local video file does not exist")
InvalidSource == Raise("ValueError", "path is not a file")
UnsupportedFormat == Raise("ValueError", "unsupported video format")
MissingArtifact == Raise("FileNotFoundError", "video file not found")

\* C1: whenever download() of any backend returns a result, the file named
\* by file_path exists at the moment of return; if the external step ended
\* without that file, the call fails.
C1_FilePathExistsAtReturn ==
    \A p \in Procs :
        (Returned(p) /\ Is(p, Backends, "download"))
            => /\ obs[p] # NoContent
               /\ ret[p].value.file_path \in DOMAIN fs

\* <output_dir>/<id extracted from the URL>.mp4
C2_Target(c) == join(OutDir(c), Fmt(extract_video_id(c.video_url, c.backend)) \o Mp4)

\* C2: download_video() of a remote backend called when
\* <output_dir>/<id extracted from the URL>.mp4 exists returns exactly that
\* path and never runs the download engine during the call.
C2_CachedVideoIsReturnedWithoutEngine ==
    \A p \in Procs :
        (Is(p, Remote, "download_video") /\ C2_Target(call[p]) \in snap[p])
            => /\ eff[p].engine = 0
               /\ Done(p) => ret[p] = Return(C2_Target(call[p]))
               /\ pc[p] \in {"start", "done"}
\* C2 witness: a download_video() that found its target on disk has returned
C2_Witness ==
    \E p \in Procs :
        /\ Returned(p) /\ Is(p, Remote, "download_video")
        /\ C2_Target(call[p]) \in snap[p]
        /\ ret[p].value = C2_Target(call[p])

\* <output_dir>/<id the engine reports>.mp4
C3_Expected(c) == join(OutDir(c), Fmt(EngineId(c.video_url)) \o Mp4)

\* C3: once download_video() of a remote backend has run the engine, every
\* path it returns names an existing file, and if the engine returned
\* without error but <output_dir>/<info id>.mp4 is absent the call raises
\* FileNotFoundError (MissingArtifact).
C3_DownloadedVideoIsVerified ==
    \A p \in Procs :
        (Done(p) /\ Is(p, Remote, "download_video") /\ eff[p].engine > 0)
            => /\ Returned(p) => (ret[p].value \in DOMAIN fs /\ obs[p] # NoContent)
               /\ (ret[p] # Raise("DownloadError", "engine")
                     /\ C3_Expected(call[p]) \notin DOMAIN fs)
                  => ret[p] = MissingArtifact
\* C3 witness: the engine returned, the file is absent, the call has raised
C3_Witness ==
    \E p \in Procs :
        /\ Done(p) /\ Is(p, Remote, "download_video") /\ eff[p].engine > 0
        /\ ret[p] = MissingArtifact
        /\ C3_Expected(call[p]) \notin DOMAIN fs

\* a local source that is no existing regular file with an allowed extension,
\* and the error it calls for
C4_Invalid(path) ==
    \/ SrcKind(path) # "file"
    \/ Lower(suffix(path)) \notin video_extensions
C4_Error(path) ==
    IF SrcKind(path) = "absent" THEN NotFound
    ELSE IF SrcKind(path) = "dir" THEN InvalidSource
    ELSE UnsupportedFormat

\* C4: download() of the local backend on a source that does not exist, is
\* not a regular file, or has an extension outside the allow-list raises
\* NotFound, InvalidSource, UnsupportedFormat (checked in that order), and
\* does no makedirs and runs neither ffmpeg nor ffprobe.
C4_InvalidLocalSourceFailsWithoutWrites ==
    \A p \in Procs :
        (Is(p, {"local"}, "download") /\ C4_Invalid(call[p].video_url))
            => /\ eff[p] = NoEff
               /\ Done(p) => ret[p] = C4_Error(call[p].video_url)
               /\ pc[p] \in {"start", "done"}
\* C4 witness: download() of an existing .txt file has raised, the output
\* directory it was given does not exist and no artifact was written
C4_Witness ==
    \E p \in Procs :
        /\ Raised(p) /\ Is(p, {"local"}, "download")
        /\ SrcKind(call[p].video_url) = "file"
        /\ ret[p] = UnsupportedFormat
        /\ call[p].output_dir = "out" /\ "out" \notin dirs
        /\ fs = <<>>

\* C5: download_video() of the local backend returns the path only if it
\* exists, is a regular file and has an allow-listed extension, and fails
\* with NotFound, InvalidSource or UnsupportedFormat otherwise.
C5_LocalVideoIsValidated ==
    \A p \in Procs :
        (Done(p) /\ Is(p, {"local"}, "download_video"))
            => IF C4_Invalid(call[p].video_url)
               THEN ret[p] = C4_Error(call[p].video_url)
               ELSE ret[p] = Return(call[p].video_url)

\* C6 (as stated): in every result of download(), video_path is populated
\* only if need_video was set.
C6_VideoPathOnlyOnRequest ==
    \A p \in Procs :
        (Returned(p) /\ Is(p, Backends, "download") /\ ret[p].value.video_path # NonePath)
            => call[p].need_video

\* C6 (amended): a remote backend's result never carries a video_path,
\* whatever need_video is; the local backend's result always carries the
\* input path as video_path, whether or not need_video was set.
C6_VideoPathByBackend ==
    \A p \in Procs :
        (Returned(p) /\ Is(p, Backends, "download"))
            => IF call[p].backend = "local"
               THEN ret[p].value.video_path = call[p].video_url
               ELSE ret[p].value.video_path = NonePath
\* C6 witness: a local download() without need_video returned the input path
C6_Witness ==
    \E p \in Procs :
        /\ Returned(p) /\ Is(p, {"local"}, "download")
        /\ ~call[p].need_video
        /\ ret[p].value.video_path = call[p].video_url

\* C7: two download() calls for different sources running concurrently do
\* not touch each other's artifact: the file a call returns holds audio made
\* from that call's own source.
C7_ConcurrentCallsKeepTheirArtifacts ==
    \A p, q \in Procs :
        (/\ p # q
         /\ Content(call[p]) # Content(call[q])
         /\ Returned(p) /\ Is(p, Backends, "download")
         /\ obs[p] # NoContent)
            => obs[p] = Content(call[p])

-----------------------------------------------------------------------------
(* WhisperTranscriber.transcript                                           *)

MaxSegs == 2
MaxText == 3

\* characters of the raw segment texts; str.strip() removes whitespace
TextChars == {"a", " "}
Whitespace == {" ", "\t", "\n", "\r"}
RawTexts == UNION {[1..n -> TextChars] : n \in 0..MaxText}
Languages == {"zh", "en"}

\* str.lstrip()
RECURSIVE lstrip(_)
lstrip(s) == IF s # <<>> /\ Head(s) \in Whitespace THEN lstrip(Tail(s)) ELSE s

\* str.rstrip()
RECURSIVE rstrip(_)
rstrip(s) ==
    IF s # <<>> /\ s[Len(s)] \in Whitespace THEN rstrip(SubSeq(s, 1, Len(s) - 1)) ELSE s

\* a strip() that only removes leading whitespace
stripLeadingOnly(s) == lstrip(s)

\* str.strip()
strip(s) == rstrip(lstrip(s))

TranscriptSegment(start, end, text) == [start |-> start, end |-> end, text |-> text]
TranscriptResult(language, full_text, segments) ==
    [language |-> language, full_text |-> full_text, segments |-> segments]

\* a handler that logs the error and hands back what was transcribed so far
OnExceptionPartial(e, language, full_text, segments) ==
    Return(TranscriptResult(language, strip(full_text), segments))

\* `except Exception as e: logger.error(...); raise`
OnException(e, language, full_text, segments) == Raise(e, "transcript")

\* transcript() is called: self.model.transcribe(file_path) raises, or
\* returns the lazy segment generator and info
TranscriptStart ==
    /\ tpc = "idle"
    /\ tcalls' = tcalls + 1
    /\ \/ /\ tfault' = "RuntimeError"
          /\ tret' = OnException("RuntimeError", tlang, tfull, tsegments)
          /\ tpc' = "done"
          /\ UNCHANGED tlang
       \/ /\ \E l \in Languages : tlang' = l
          /\ tpc' = "loop"
          /\ UNCHANGED <<tfault, tret>>
    /\ UNCHANGED <<traw, tsegments, tfull, dvars, svars, rvars, cvars>>

\* one turn of `for seg in segments_raw`: the generator yields the next raw
\* segment (the k-th spans k-1 .. k), or raises while decoding
TranscriptLoop ==
    /\ tpc = "loop"
    /\ \/ \E t \in RawTexts :
            LET seg == [start |-> Len(traw), end |-> Len(traw) + 1, text |-> t]
                text == strip(seg.text)
            IN  /\ Len(traw) < MaxSegs
                /\ traw' = Append(traw, seg)
                /\ tfull' = tfull \o text \o <<" ">>
                /\ tsegments' = Append(tsegments, TranscriptSegment(seg.start, seg.end, text))
                /\ UNCHANGED <<tpc, tret, tfault>>
       \/ /\ tfault' = "RuntimeError"
          /\ tret' = OnException("RuntimeError", tlang, tfull, tsegments)
          /\ tpc' = "done"
          /\ UNCHANGED <<traw, tfull, tsegments>>
    /\ UNCHANGED <<tlang, tcalls, dvars, svars, rvars, cvars>>

\* the generator is exhausted: the result is built and returned
TranscriptReturn ==
    /\ tpc = "loop"
    /\ tret' = Return(TranscriptResult(tlang, strip(tfull), tsegments))
    /\ tpc' = "done"
    /\ UNCHANGED <<traw, tlang, tsegments, tfull, tcalls, tfault, dvars, svars, rvars, cvars>>

InitTranscribe == TInert /\ SInert /\ DInit /\ RInert /\ CInert

NextTranscribe ==
    \/ TranscriptStart
    \/ TranscriptLoop
    \/ TranscriptReturn

SpecTranscribe == InitTranscribe /\ [][NextTranscribe]_vars

\* s without its leading and trailing whitespace; texts joined by one space
C8_Trimmed(s) ==
    LET N == {i \in 1..Len(s) : s[i] \notin Whitespace}
    IN  IF N = {} THEN <<>>
        ELSE SubSeq(s, CHOOSE i \in N : \A j \in N : i <= j,
                       CHOOSE i \in N : \A j \in N : j <= i)
RECURSIVE C8_Joined(_)
C8_Joined(texts) ==
    IF texts = <<>> THEN <<>>
    ELSE IF Len(texts) = 1 THEN texts[1]
    ELSE texts[1] \o <<" ">> \o C8_Joined(Tail(texts))

\* C8: the result's segments have the length and order of the raw sequence,
\* the i-th carries the i-th raw start and end and its trimmed text, and
\* full_text is the trimmed texts joined by single spaces, then trimmed.
C8_SegmentsAndFullTextFollowTheRawStream ==
    (tpc = "done" /\ tret.kind = "return") =>
        LET r == tret.value
        IN  /\ Len(r.segments) = Len(traw)
            /\ \A i \in 1..Len(traw) :
                 /\ r.segments[i].start = traw[i].start
                 /\ r.segments[i].end = traw[i].end
                 /\ r.segments[i].text = C8_Trimmed(traw[i].text)
            /\ r.full_text =
                 C8_Trimmed(C8_Joined([i \in 1..Len(traw) |-> C8_Trimmed(traw[i].text)]))
\* C8 witness: the stream "a", " a " gave segments[2].text "a", full_text "a a"
C8_Witness ==
    /\ tpc = "done" /\ tret.kind = "return"
    /\ Len(traw) = 2
    /\ traw[1].text = <<"a">>
    /\ traw[2].text = <<" ", "a", " ">>
    /\ tret.value.segments[2].text = <<"a">>
    /\ tret.value.full_text = <<"a", " ", "a">>

\* C9: if the runtime raises, in transcribe() or while the segments are
\* consumed, transcript() raises and returns no (partial) result; and
\* model.transcribe() is invoked exactly once per call.
C9_AllOrNothingAndNoRetry ==
    /\ tcalls <= 1
    /\ tpc # "idle" => tcalls = 1
    /\ (tpc = "done" /\ tfault # "None") => tret = Raise(tfault, "transcript")
    /\ (tpc = "done" /\ tret.kind = "return") =>
            (tfault = "None" /\ Len(tret.value.segments) = Len(traw))
    /\ tpc = "done" => tret.kind \in {"return", "raise"}
\* C9 witness: the runtime raised after two segments and the call has raised
C9_Witness ==
    /\ tpc = "done"
    /\ tfault = "RuntimeError"
    /\ Len(traw) = 2 /\ Len(tsegments) = 2
    /\ tret.kind = "raise"
    /\ tcalls = 1

-----------------------------------------------------------------------------
(* bilibili_search: _parse_duration, search_bilibili_videos                *)

MaxRaw == 3

\* str.split(sep) for a one-character separator
RECURSIVE split(_, _)
split(s, sep) ==
    LET D == {i \in 1..Len(s) : s[i] = sep}
    IN  IF D = {} THEN <<s>>
        ELSE LET i == CHOOSE k \in D : \A j \in D : k <= j
             IN  <<SubSeq(s, 1, i - 1)>> \o split(SubSeq(s, i + 1, Len(s)), sep)

DigitValue(c) ==
    CASE c = "0" -> 0 [] c = "1" -> 1 [] c = "2" -> 2 [] c = "3" -> 3 [] c = "4" -> 4
      [] c = "5" -> 5 [] c = "6" -> 6 [] c = "7" -> 7 [] c = "8" -> 8 [] c = "9" -> 9

\* int(s) succeeds (for the strings of the model: digits, ":" and letters,
\* without sign, blanks or underscores)
IsInt(s) == s # <<>> /\ \A i \in 1..Len(s) : s[i] \in Digits

\* int(s) of a string of digits
RECURSIVE int(_)
int(s) == IF s = <<>> THEN 0 ELSE 10 * int(SubSeq(s, 1, Len(s) - 1)) + DigitValue(s[Len(s)])

\* a value of the API that is not a dict
NotADict == [notdict |-> TRUE]

\* _parse_duration: "MM:SS" or "HH:MM:SS" to seconds; 0 on any other shape
\* and, by the bare `except`, when int() fails on a part
parse_duration(duration_str) ==
    LET parts == split(duration_str, ":")
    IN  IF Len(parts) = 2 THEN
            IF IsInt(parts[1]) /\ IsInt(parts[2])
            THEN int(parts[1]) * 60 + int(parts[2]) ELSE 0
        ELSE IF Len(parts) = 3 THEN
            IF IsInt(parts[1]) /\ IsInt(parts[2]) /\ IsInt(parts[3])
            THEN int(parts[1]) * 3600 + int(parts[2]) * 60 + int(parts[3]) ELSE 0
        ELSE 0

\* dict.get(key, default)
Get(d, key, default) == IF key \in DOMAIN d THEN d[key] ELSE default

\* the entries the search API can put in result['result']: a full entry, an
\* entry with only a bvid, an entry with an empty bvid, an entry without a
\* bvid, and a value that is not a dict
RawEntries == {
    [bvid |-> <<"B", "V", "1">>, title |-> "T", duration |-> <<"1", ":", "0", "5">>,
     play |-> 7, author |-> "U"],
    [bvid |-> <<"B", "V", "2">>],
    [bvid |-> <<>>, title |-> "T"],
    [title |-> "T", duration |-> <<"x">>],
    NotADict }
RawLists == UNION {[1..n -> RawEntries] : n \in 0..MaxRaw}

\* what sync(_search()) gives: a mapping with a 'result' list, a mapping
\* without that key, None, or an exception; or bilibili_api is not installed
ApiAnswers ==
    {[kind |-> "dict", result |-> l] : l \in RawLists}
    \cup {[kind |-> "dict"], [kind |-> "None"], [kind |-> "raise"], [kind |-> "ImportError"]}

Counts == (0 - 1)..(MaxRaw + 1)

\* videos[:count]
slice(videos, count) ==
    LET n == Len(videos)
        k == IF count >= 0 THEN (IF count < n THEN count ELSE n)
             ELSE (IF n + count > 0 THEN n + count ELSE 0)
    IN  SubSeq(videos, 1, k)

\* the record search_bilibili_videos builds for an entry with a bvid
video_info(video) ==
    [url |-> <<"https://www.bilibili.com/video/">> \o video.bvid,
     title |-> Get(video, "title", "unknown title"),
     bvid |-> video.bvid,
     duration |-> parse_duration(Get(video, "duration", <<"0", ":", "0", "0">>)),
     play |-> Get(video, "play", 0),
     author |-> Get(video, "author", "unknown author")]

\* search_bilibili_videos is called; everything up to the loop
SearchCall ==
    /\ spc = "idle"
    /\ \E answer \in ApiAnswers, count \in Counts :
         /\ sraw' = answer
         /\ scount' = count
         /\ IF \/ answer.kind # "dict"
               \/ "result" \notin DOMAIN answer
               \/ answer.result = <<>>
            THEN /\ sret' = Return(<<>>)
                 /\ spc' = "done"
                 /\ UNCHANGED svideos
            ELSE /\ svideos' = slice(answer.result, count)
                 /\ spc' = "loop"
                 /\ UNCHANGED sret
    /\ UNCHANGED <<sidx, slist, dvars, tvars, rvars, cvars>>

\* a loop in which one entry without an id ends the search empty-handed
SearchEntryAbort ==
    /\ spc = "loop"
    /\ sidx < Len(svideos)
    /\ LET video == svideos[sidx + 1]
       IN  IF video = NotADict \/ Get(video, "bvid", <<>>) = <<>>
           THEN /\ sret' = Return(<<>>)
                /\ spc' = "done"
                /\ UNCHANGED <<slist, sidx>>
           ELSE /\ slist' = Append(slist, video_info(video))
                /\ sidx' = sidx + 1
                /\ UNCHANGED <<spc, sret>>
    /\ UNCHANGED <<sraw, scount, svideos, dvars, tvars, rvars, cvars>>

\* one turn of `for i, video in enumerate(videos[:count])`: an entry that is
\* not a dict raises inside the try and is skipped, an entry without a bvid
\* is skipped, any other is appended
SearchEntry ==
    /\ spc = "loop"
    /\ sidx < Len(svideos)
    /\ LET video == svideos[sidx + 1]
       IN  IF video = NotADict THEN UNCHANGED slist
           ELSE IF Get(video, "bvid", <<>>) = <<>> THEN UNCHANGED slist
           ELSE slist' = Append(slist, video_info(video))
    /\ sidx' = sidx + 1
    /\ UNCHANGED <<spc, sret, sraw, scount, svideos, dvars, tvars, rvars, cvars>>

\* `return video_list`
SearchReturn ==
    /\ spc = "loop"
    /\ sidx = Len(svideos)
    /\ sret' = Return(slist)
    /\ spc' = "done"
    /\ UNCHANGED <<sraw, scount, svideos, sidx, slist, dvars, tvars, rvars, cvars>>

InitSearch == SInert /\ TInert /\ DInit /\ RInert /\ CInert

NextSearch ==
    \/ SearchCall
    \/ SearchEntry
    \/ SearchReturn

SpecSearch == InitSearch /\ [][NextSearch]_vars

\* the entries of a raw list that carry an id, in their order
C10_HasId(v) == v # NotADict /\ "bvid" \in DOMAIN v /\ v.bvid # <<>>
C10_RawList == IF sraw.kind = "dict" /\ "result" \in DOMAIN sraw THEN sraw.result ELSE <<>>
C10_Ids(list) == [i \in 1..Len(list) |-> list[i].bvid]

\* C10 (as stated): entries without an id are dropped without aborting the
\* search and every entry with an id is kept, in the original order, for
\* every raw list and every requested count (here: every count >= 1).
C10_EveryEntryWithIdIsKept ==
    (spc = "done" /\ scount >= 1) =>
        /\ sret.kind = "return"
        /\ C10_Ids(sret.value) = C10_Ids(SelectSeq(C10_RawList, C10_HasId))

\* the entries the search looks at
C10_Considered ==
    LET n == Len(C10_RawList)
        k == IF scount >= n THEN n ELSE IF scount >= 0 THEN scount
             ELSE IF n + scount > 0 THEN n + scount ELSE 0
    IN  [i \in 1..k |-> C10_RawList[i]]

\* C10 (amended): of the entries the search looks at, videos[:count], those
\* without an id are dropped without aborting the search and every one with
\* an id is kept, in the original order; entries after the first `count` are
\* not returned.  An empty or missing raw result gives an empty list, never
\* an error.
C10_EntriesWithIdAmongTheFirstCountAreKept ==
    spc = "done" =>
        /\ sret.kind = "return"
        /\ C10_Ids(sret.value) = C10_Ids(SelectSeq(C10_Considered, C10_HasId))
        /\ \A i \in 1..Len(sret.value) :
              sret.value[i].url = <<"https://www.bilibili.com/video/">> \o sret.value[i].bvid
        /\ C10_RawList = <<>> => sret.value = <<>>
\* C10 witness: [entry without id, entry with id] and count 2 gave one record
C10_Witness ==
    /\ spc = "done"
    /\ sraw.kind = "dict" /\ "result" \in DOMAIN sraw
    /\ Len(sraw.result) = 2
    /\ ~C10_HasId(sraw.result[1])
    /\ C10_HasId(sraw.result[2])
    /\ scount = 2
    /\ Len(sret.value) = 1
    /\ sret.value[1].bvid = sraw.result[2].bvid

-----------------------------------------------------------------------------
(* The platform registry: PLATFORM_DOWNLOADERS and get_downloader()        *)

MaxResolves == 3

\* the platform tags a caller passes: the registered tags in several
\* spellings, and tags that are not registered
Platforms == {
    <<"b", "i", "l", "i", "b", "i", "l", "i">>,
    <<"B", "I", "L", "I", "B", "I", "L", "I">>,
    <<"B", "i", "l", "i", "b", "i", "l", "i">>,
    <<"y", "o", "u", "t", "u", "b", "e">>,
    <<"Y", "o", "u", "T", "u", "b", "e">>,
    <<"Y", "O", "U", "T", "U", "B", "E">>,
    <<"l", "o", "c", "a", "l">>,
    <<"L", "o", "c", "a", "l">>,
    <<"L", "O", "C", "A", "L">>,
    <<"d", "o", "u", "y", "i", "n">>,
    <<"D", "o", "u", "y", "i", "n">>,
    <<"b", "i", "l", "i">>,
    <<" ", "l", "o", "c", "a", "l">>,
    <<>> }

PLATFORM_DOWNLOADERS ==
    (<<"b", "i", "l", "i", "b", "i", "l", "i">> :> "BilibiliDownloader")
    @@ (<<"y", "o", "u", "t", "u", "b", "e">> :> "YoutubeDownloader")
    @@ (<<"l", "o", "c", "a", "l">> :> "LocalVideoDownloader")

\* dict.get(key): None for a key that is not in the dict
NoClass == "None"
DictGet(d, key) == IF key \in DOMAIN d THEN d[key] ELSE NoClass

\* the lookup without lower()
downloader_cls_exact(platform) == DictGet(PLATFORM_DOWNLOADERS, platform)
\* downloader_cls = PLATFORM_DOWNLOADERS.get(platform.lower())
downloader_cls(platform) == DictGet(PLATFORM_DOWNLOADERS, Lower(platform))

\* f"<unsupported platform>: {platform}", the fixed part of the message
\* written here in ASCII
UnsupportedMessage(platform) == <<"unsupported platform: ">> \o platform

\* downloader_cls(): Downloader.__init__ through the subclass's __init__; a
\* new object, whose identity `id` no object made before has
NewDownloader(cls, made) ==
    [cls |-> cls, id |-> Len(made) + 1, quality |-> "32",
     cache_data |-> cache_data]

\* get_downloader(platform)
GetDownloader ==
    /\ rcalls < MaxResolves
    /\ \E platform \in Platforms :
          LET cls == downloader_cls(platform)
          IN  /\ rtag' = platform
              /\ IF cls = NoClass
                 THEN /\ rret' = Raise("ValueError", UnsupportedMessage(platform))
                      /\ UNCHANGED <<rmade, dirs>>
                 ELSE /\ rret' = Return(NewDownloader(cls, rmade))
                      /\ rmade' = Append(rmade, NewDownloader(cls, rmade))
                      \* get_data_dir() makes the data directory
                      /\ dirs' = dirs \cup {cache_data}
    /\ rcalls' = rcalls + 1
    /\ UNCHANGED <<fs, pc, call, loc, ret, eff, snap, obs, nCalls, tvars, svars, cvars>>

InitRegistry == RInert /\ DInit /\ TInert /\ SInert /\ CInert
NextRegistry == GetDownloader
SpecRegistry == InitRegistry /\ [][NextRegistry]_vars

C11_Lower == <<"a", "b", "c", "d", "e", "f", "g", "h", "i", "j", "k", "l", "m",
               "n", "o", "p", "q", "r", "s", "t", "u", "v", "w", "x", "y", "z">>
C11_Upper == <<"A", "B", "C", "D", "E", "F", "G", "H", "I", "J", "K", "L", "M",
               "N", "O", "P", "Q", "R", "S", "T", "U", "V", "W", "X", "Y", "Z">>
\* the same letter, in either case
C11_SameLetter(a, b) ==
    a = b \/ \E i \in 1..26 : {a, b} = {C11_Lower[i], C11_Upper[i]}
\* `tag` is a case variant of the lowercase tag t
C11_Variant(tag, t) ==
    /\ Len(tag) = Len(t)
    /\ \A i \in 1..Len(t) : C11_SameLetter(tag[i], t[i])
C11_Registered == DOMAIN PLATFORM_DOWNLOADERS

\* C11: get_downloader ignores letter case: a case variant of "bilibili",
\* "youtube" or "local" gives a backend of the class registered for the
\* lowercase tag; any other tag raises ValueError with a message naming the
\* tag as it was given; and a returned backend is a new instance, none of
\* those handed out earlier.
C11_ResolveIgnoresCaseAndConstructs ==
    rcalls > 0 =>
        /\ \A t \in C11_Registered :
              C11_Variant(rtag, t) =>
                  /\ rret.kind = "return"
                  /\ rret.value.cls = PLATFORM_DOWNLOADERS[t]
        /\ (~ \E t \in C11_Registered : C11_Variant(rtag, t)) =>
              /\ rret.kind = "raise"
              /\ rret.exc = "ValueError"
              /\ rret.msg = <<"unsupported platform: ">> \o rtag
        /\ rret.kind = "return" =>
              /\ rmade # <<>>
              /\ rret.value = rmade[Len(rmade)]
              /\ \A i \in 1..(Len(rmade) - 1) : rmade[i].id # rret.value.id
\* C11 witness: a tag in mixed case was resolved to a backend of a class of
\* which an instance had been handed out before
C11_Witness ==
    /\ rcalls > 1
    /\ rret.kind = "return"
    /\ rtag # Lower(rtag)
    /\ Len(rmade) > 1
    /\ rmade[1].cls = rret.value.cls
    /\ rmade[1] # rret.value

-----------------------------------------------------------------------------
(* The duration codec: format_duration() and _parse_duration()             *)

\* the largest number of seconds formatted: the last second of a day
MaxDuration == 86399

DigitChar(k) ==
    CASE k = 0 -> "0" [] k = 1 -> "1" [] k = 2 -> "2" [] k = 3 -> "3" [] k = 4 -> "4"
      [] k = 5 -> "5" [] k = 6 -> "6" [] k = 7 -> "7" [] k = 8 -> "8" [] k = 9 -> "9"

\* f"{n}" of an int n >= 0: its decimal digits
RECURSIVE str(_)
str(n) == IF n < 10 THEN <<DigitChar(n)>> ELSE str(n \div 10) \o <<DigitChar(n % 10)>>

\* f"{n:02d}" of an int n >= 0: zero-padded to two characters at least
str02d(n) == IF Len(str(n)) < 2 THEN <<"0">> \o str(n) ELSE str(n)

\* format_duration with the minutes of the long form not reduced modulo the hour
format_duration_total_minutes(seconds) ==
    IF seconds < 3600
    THEN str(seconds \div 60) \o <<":">> \o str02d(seconds % 60)
    ELSE str(seconds \div 3600) \o <<":">> \o str02d(seconds \div 60)
             \o <<":">> \o str02d(seconds % 60)
\* format_duration(seconds), seconds >= 0
format_duration(seconds) ==
    IF seconds < 3600
    THEN LET minutes == seconds \div 60
             secs == seconds % 60
         IN  str(minutes) \o <<":">> \o str02d(secs)
    ELSE LET hours == seconds \div 3600
             minutes == (seconds % 3600) \div 60
             secs == seconds % 60
         IN  str(hours) \o <<":">> \o str02d(minutes) \o <<":">> \o str02d(secs)

\* a caller formats a number of seconds ...
FormatDuration ==
    /\ cpc = "start"
    /\ cstr' = format_duration(cseconds)
    /\ cpc' = "formatted"
    /\ UNCHANGED <<cseconds, cparsed, dvars, tvars, svars, rvars>>

\* ... and parses the string back
ParseDuration ==
    /\ cpc = "formatted"
    /\ cparsed' = parse_duration(cstr)
    /\ cpc' = "parsed"
    /\ UNCHANGED <<cseconds, cstr, dvars, tvars, svars, rvars>>

InitCodec ==
    /\ cpc = "start" /\ cseconds \in 0..MaxDuration /\ cstr = <<>> /\ cparsed = 0
    /\ DInit /\ TInert /\ SInert /\ RInert
NextCodec == FormatDuration \/ ParseDuration
SpecCodec == InitCodec /\ [][NextCodec]_vars

C12_Parts == split(cstr, ":")
C12_TwoDigits(s) == Len(s) = 2 /\ \A i \in 1..2 : s[i] \in Digits

\* C12: for every d from 0 to the last second of a day, parsing the string
\* format_duration(d) gives d back; the string is M:SS below 3600 seconds
\* and H:MM:SS from 3600 seconds on.
C12_ParseInvertsFormat ==
    /\ cpc \in {"formatted", "parsed"} =>
          IF cseconds < 3600
          THEN /\ Len(C12_Parts) = 2
               /\ IsInt(C12_Parts[1])
               /\ C12_TwoDigits(C12_Parts[2])
          ELSE /\ Len(C12_Parts) = 3
               /\ IsInt(C12_Parts[1])
               /\ C12_TwoDigits(C12_Parts[2])
               /\ C12_TwoDigits(C12_Parts[3])
    /\ cpc = "parsed" => cparsed = cseconds
\* C12 witness: 3661 seconds were formatted as 1:01:01 and parsed back
C12_Witness ==
    /\ cpc = "parsed"
    /\ cseconds = 3661
    /\ cstr = <<"1", ":", "0", "1", ":", "0", "1">>
    /\ cparsed = 3661

-----------------------------------------------------------------------------
(* The cache key of download_video()                                       *)

\* the video of the call's URL was in its output directory, under the name
\* the engine gives it, when the call was made: an earlier download_video()
\* for this URL and directory has succeeded
C13_DownloadedBefore(p) == C3_Expected(call[p]) \in snap[p]

\* C13: for the remote backends the path download_video() looks for before
\* downloading is the path it verifies and returns after a download: a path
\* returned after a download is the path of the cache check; once the video
\* of a URL has been downloaded to a directory, a later download_video() for
\* that URL and directory returns that path and never runs the engine; and
\* a path returned without a download holds the video of the call's URL.
C13_CacheKeyIsTheDownloadKey ==
    \A p \in Procs :
        Is(p, Remote, "download_video") =>
            /\ (Returned(p) /\ eff[p].engine > 0)
                  => ret[p].value = C2_Target(call[p])
            /\ C13_DownloadedBefore(p)
                  => /\ eff[p].engine = 0
                     /\ Returned(p) => ret[p].value = C3_Expected(call[p])
            /\ (Returned(p) /\ eff[p].engine = 0)
                  => obs[p] = Content(call[p])

====
